---- MODULE Spec2Model ----
(***************************************************************************)
(* A model of insecres: the crawl loop and its fetch goroutines (main.go),  *)
(* and the page scanner ResourceAndLinkFinder (finder) with the URL         *)
(* handling it relies on.                                                   *)
(*                                                                          *)
(* Strings are sequences of atoms: an atom is either one punctuation        *)
(* character (":", "/", "?", "#", ".") or a maximal run of letters          *)
(* ("https", "example").  Every string operation of the code (HasPrefix,    *)
(* TrimSuffix, Cut, LastIndex, concatenation at a "/") is then computed on  *)
(* the sequence as the code computes it on bytes.                           *)
(***************************************************************************)
EXTENDS Integers, Sequences, FiniteSets, TLC

\* ------------------------------------------------------------------------
\* strings
\* ------------------------------------------------------------------------

Punct == {":", "/", "?", "#", "."}

IsWord(a) == a \notin Punct

\* strings.ToLower on one atom (url.Parse lower-cases the scheme).
ToLowerAtom(a) ==
    CASE a = "HTTP"  -> "http"
      [] a = "HTTPS" -> "https"
      [] OTHER       -> a

ToLower(s) == [i \in 1..Len(s) |-> ToLowerAtom(s[i])]

\* strings.HasPrefix / strings.HasSuffix
HasPrefix(s, p) == Len(s) >= Len(p) /\ SubSeq(s, 1, Len(p)) = p

HasSuffix(s, p) == Len(s) >= Len(p) /\ SubSeq(s, Len(s) - Len(p) + 1, Len(s)) = p

\* strings.TrimPrefix / strings.TrimSuffix: remove one occurrence when present.
TrimPrefix(s, p) == IF HasPrefix(s, p) THEN SubSeq(s, Len(p) + 1, Len(s)) ELSE s

TrimSuffix(s, p) == IF HasSuffix(s, p) THEN SubSeq(s, 1, Len(s) - Len(p)) ELSE s

\* strings.Index / strings.LastIndex for a one-character separator; 0 = absent.
Index(s, c) ==
    IF \E i \in 1..Len(s) : s[i] = c
    THEN CHOOSE i \in 1..Len(s) : s[i] = c /\ \A j \in 1..(i - 1) : s[j] # c
    ELSE 0

LastIndex(s, c) ==
    IF \E i \in 1..Len(s) : s[i] = c
    THEN CHOOSE i \in 1..Len(s) : s[i] = c /\ \A j \in (i + 1)..Len(s) : s[j] # c
    ELSE 0

Contains(s, c) == Index(s, c) # 0

Count(s, c) == Cardinality({i \in 1..Len(s) : s[i] = c})

\* strings.Cut(s, c): before, after, found.
CutBefore(s, c) == IF Contains(s, c) THEN SubSeq(s, 1, Index(s, c) - 1) ELSE s

CutAfter(s, c) == IF Contains(s, c) THEN SubSeq(s, Index(s, c) + 1, Len(s)) ELSE <<>>

\* ------------------------------------------------------------------------
\* net/url as the finder uses it: url.Parse, URL.IsAbs, URL.String,
\* URL.ResolveReference
\* ------------------------------------------------------------------------

NoURL == [Err |-> TRUE, Scheme |-> <<>>, Opaque |-> <<>>, Host |-> <<>>,
          Path |-> <<>>, ForceQuery |-> FALSE, RawQuery |-> <<>>, Fragment |-> <<>>]

\* getScheme: the position of the ":" that ends a scheme; 0 when the string
\* has no scheme; -1 when the string starts with ":" (missing protocol scheme).
RECURSIVE getSchemeFrom(_, _)
getSchemeFrom(s, i) ==
    IF i > Len(s) THEN 0
    ELSE IF IsWord(s[i]) THEN getSchemeFrom(s, i + 1)
    ELSE IF s[i] = "." THEN (IF i = 1 THEN 0 ELSE getSchemeFrom(s, i + 1))
    ELSE IF s[i] = ":" THEN (IF i = 1 THEN -1 ELSE i)
    ELSE 0

getScheme(s) == getSchemeFrom(s, 1)

\* parseAuthority/parseHost: the host keeps an optional port; a port that is
\* not a run of digits is an error (no atom of the model is a digit run, so
\* only the empty port is valid).
validOptionalPort(host) ==
    ~Contains(host, ":") \/ LastIndex(host, ":") = Len(host)

\* url.Parse, last stage: rest is what follows the scheme and precedes the
\* query; a rootless rest after a scheme is opaque; "//" opens an authority.
parseRest(scheme, rest, force, query, frag) ==
    IF ~HasPrefix(rest, <<"/">>) /\ scheme # <<>>
    THEN [Err |-> FALSE, Scheme |-> scheme, Opaque |-> rest, Host |-> <<>>,
          Path |-> <<>>, ForceQuery |-> force, RawQuery |-> query, Fragment |-> frag]
    ELSE IF ~HasPrefix(rest, <<"/">>) /\ Contains(CutBefore(rest, "/"), ":")
    THEN NoURL
    ELSE IF HasPrefix(rest, <<"/", "/">>)
            /\ (scheme # <<>> \/ ~HasPrefix(rest, <<"/", "/", "/">>))
    THEN (IF ~validOptionalPort(CutBefore(SubSeq(rest, 3, Len(rest)), "/"))
          THEN NoURL
          ELSE [Err |-> FALSE, Scheme |-> scheme, Opaque |-> <<>>,
                Host |-> CutBefore(SubSeq(rest, 3, Len(rest)), "/"),
                Path |-> SubSeq(rest, 3 + Len(CutBefore(SubSeq(rest, 3, Len(rest)), "/")),
                                Len(rest)),
                ForceQuery |-> force, RawQuery |-> query, Fragment |-> frag])
    ELSE [Err |-> FALSE, Scheme |-> scheme, Opaque |-> <<>>, Host |-> <<>>,
          Path |-> rest, ForceQuery |-> force, RawQuery |-> query, Fragment |-> frag]

\* url.Parse, the query: a lone trailing "?" forces an empty query, otherwise
\* the query is what follows the first "?".
parseQuery(scheme, r0, force, frag) ==
    parseRest(scheme,
              IF force THEN SubSeq(r0, 1, Len(r0) - 1) ELSE CutBefore(r0, "?"),
              force,
              IF force THEN <<>> ELSE CutAfter(r0, "?"),
              frag)

\* url.Parse, the scheme: k is getScheme's result on u.
parseScheme(u, k, frag) ==
    IF k = -1 THEN NoURL
    ELSE IF k > 0
    THEN parseQuery(ToLower(SubSeq(u, 1, k - 1)), SubSeq(u, k + 1, Len(u)),
                    HasSuffix(u, <<"?">>) /\ Count(SubSeq(u, k + 1, Len(u)), "?") = 1, frag)
    ELSE parseQuery(<<>>, u, HasSuffix(u, <<"?">>) /\ Count(u, "?") = 1, frag)

\* url.Parse(rawURL): the fragment is cut off at the first "#".
ParseURL(raw) == parseScheme(CutBefore(raw, "#"), getScheme(CutBefore(raw, "#")), CutAfter(raw, "#"))

\* URL.IsAbs
IsAbs(u) == u.Scheme # <<>>

\* URL.String
URLString(u) ==
    LET head == IF u.Scheme # <<>> THEN u.Scheme \o <<":">> ELSE <<>>
        auth == IF u.Scheme # <<>> \/ u.Host # <<>>
                THEN (IF u.Host # <<>> \/ u.Path # <<>> THEN <<"/", "/">> ELSE <<>>)
                     \o u.Host
                     \o (IF u.Path # <<>> /\ u.Path[1] # "/" /\ u.Host # <<>>
                         THEN <<"/">> ELSE <<>>)
                ELSE <<>>
        dot  == IF head = <<>> /\ auth = <<>> /\ Contains(CutBefore(u.Path, "/"), ":")
                THEN <<".", "/">> ELSE <<>>
        body == IF u.Opaque # <<>> THEN u.Opaque ELSE auth \o dot \o u.Path
        q    == IF u.ForceQuery \/ u.RawQuery # <<>> THEN <<"?">> \o u.RawQuery ELSE <<>>
        f    == IF u.Fragment # <<>> THEN <<"#">> \o u.Fragment ELSE <<>>
    IN  head \o body \o q \o f

\* resolvePath(base, ref) of net/url: merge, then remove dot segments.
\* Elements are cut at "/" one at a time; dst always starts with "/".
RECURSIVE resolveElems(_, _, _, _)
resolveElems(remaining, found, dst, first) ==
    IF ~found THEN <<dst, <<>>>>
    ELSE
      LET elem == CutBefore(remaining, "/")
          more == Contains(remaining, "/")
          rem2 == CutAfter(remaining, "/")
          str  == SubSeq(dst, 2, Len(dst))
          idx  == LastIndex(str, "/")
          step ==
            IF elem = <<".">> THEN <<dst, FALSE>>
            ELSE IF elem = <<".", ".">>
            THEN (IF idx = 0 THEN <<(<<"/">>), TRUE>>
                  ELSE <<(<<"/">> \o SubSeq(str, 1, idx - 1)), first>>)
            ELSE <<(dst \o (IF first THEN <<>> ELSE <<"/">>) \o elem), FALSE>>
      IN  IF more THEN resolveElems(rem2, TRUE, step[1], step[2])
          ELSE <<step[1], elem>>

resolvePath(base, ref) ==
    LET full == IF ref = <<>> THEN base
                ELSE IF ref[1] # "/"
                THEN SubSeq(base, 1, LastIndex(base, "/")) \o ref
                ELSE ref
        res  == resolveElems(full, TRUE, <<"/">>, TRUE)
        last == res[2]
        r    == IF last = <<".">> \/ last = <<".", ".">> THEN res[1] \o <<"/">> ELSE res[1]
    IN  IF full = <<>> THEN <<>>
        ELSE IF Len(r) > 1 /\ r[2] = "/" THEN SubSeq(r, 2, Len(r))
        ELSE r

\* URL.ResolveReference: base.ResolveReference(ref)
ResolveReference(base, ref) ==
    LET withScheme == [ref EXCEPT !.Scheme = IF ref.Scheme = <<>> THEN base.Scheme ELSE @]
    IN  IF ref.Scheme # <<>> \/ ref.Host # <<>>
        THEN [withScheme EXCEPT !.Path = resolvePath(ref.Path, <<>>)]
        ELSE IF ref.Opaque # <<>>
        THEN [withScheme EXCEPT !.Host = <<>>, !.Path = <<>>]
        ELSE
          LET keepQ == ref.Path = <<>> /\ ~ref.ForceQuery /\ ref.RawQuery = <<>>
              q     == IF keepQ THEN base.RawQuery ELSE ref.RawQuery
              f     == IF keepQ /\ ref.Fragment = <<>> THEN base.Fragment ELSE ref.Fragment
          IN  IF ref.Path = <<>> /\ base.Opaque # <<>>
              THEN [withScheme EXCEPT !.Opaque = base.Opaque, !.Host = <<>>,
                                      !.Path = <<>>, !.RawQuery = q, !.Fragment = f]
              ELSE [withScheme EXCEPT !.Host = base.Host,
                                      !.Path = resolvePath(base.Path, ref.Path),
                                      !.RawQuery = q, !.Fragment = f]

\* ------------------------------------------------------------------------
\* html tokens: [Type, Data, Attr], Attr a sequence of [Key, Val]
\* ------------------------------------------------------------------------

StartTagToken == "StartTag"
SelfClosingTagToken == "SelfClosingTag"
EndTagToken == "EndTag"
TextToken == "Text"

Tok(type, data, attr) == [Type |-> type, Data |-> data, Attr |-> attr]

At(key, val) == [Key |-> key, Val |-> val]

\* ------------------------------------------------------------------------
\* ResourceAndLinkFinder
\* ------------------------------------------------------------------------

ResourceTags == {"iframe", "object", "video", "audio", "source", "track"}

isResourceToken(token) ==
    \/ token.Type = SelfClosingTagToken /\ token.Data = "img"
    \/ token.Type = StartTagToken /\ token.Data \in ResourceTags

isTargetedResourceTokenAttribute(token, attribute) ==
    \/ token.Data = "object" /\ attribute.Key = "data"
    \/ attribute.Key = "src"
    \/ attribute.Key = "poster"

\* The test of line 232: the value is skipped when it holds.
isIgnoredResourceUri(uri) ==
    \/ ~IsAbs(uri)
    \/ uri.Scheme = <<"https">>
    \/ (uri.Host # <<>> /\ HasPrefix(URLString(uri), <<"/", "/">>))

EmptyMap == [k \in {} |-> <<>>]

\* Lines 226-236 for one targeted attribute: result[attr.Key] = uri.String()
\* unless the value does not parse or is ignored.
putResourceUri(attr, uri, result) ==
    IF uri.Err \/ isIgnoredResourceUri(uri) THEN result
    ELSE [k \in DOMAIN result \cup {attr.Key} |->
            IF k = attr.Key THEN URLString(uri) ELSE result[k]]

\* The loop of processResourceToken over token.Attr[i..]: result maps an
\* attribute key to the url it carries; a later attribute with the same key
\* overwrites an earlier one.
RECURSIVE resourceAttrs(_, _, _)
resourceAttrs(token, i, result) ==
    IF i > Len(token.Attr) THEN result
    ELSE resourceAttrs(token, i + 1,
           IF isTargetedResourceTokenAttribute(token, token.Attr[i])
           THEN putResourceUri(token.Attr[i], ParseURL(token.Attr[i].Val), result)
           ELSE result)

\* processResourceToken returns the map, or an error when it is empty; Parse
\* ranges over the map's values.
resourceResult(result) ==
    [err |-> DOMAIN result = {}, uris |-> {result[k] : k \in DOMAIN result}]

processResourceToken(token) == resourceResult(resourceAttrs(token, 1, EmptyMap))

isLinkToken(token) == token.Type = StartTagToken /\ token.Data = "a"

convertToAbsolute(source, base) == ResolveReference(base, source)

LinkErr == [err |-> TRUE, uri |-> <<>>]

\* A processLinkToken that does not compare hosts.
linkOf_NoHostCheck(uri, baseUrl) ==
    IF IsAbs(uri) \/ (uri.Host # <<>> /\ HasPrefix(URLString(uri), <<"/", "/">>))
    THEN [err |-> FALSE, uri |-> TrimSuffix(URLString(uri), <<"/">>)]
    ELSE [err |-> FALSE,
          uri |-> TrimSuffix(URLString(convertToAbsolute(uri, baseUrl)), <<"/">>)]

\* Lines 280-294: uri is the parsed href, baseUrl the parsed base.
linkOf(uri, baseUrl) ==
    IF IsAbs(uri) \/ (uri.Host # <<>> /\ HasPrefix(URLString(uri), <<"/", "/">>))
    THEN (IF TrimPrefix(uri.Host, <<"www", ".">>) # TrimPrefix(baseUrl.Host, <<"www", ".">>)
          THEN LinkErr
          ELSE [err |-> FALSE, uri |-> TrimSuffix(URLString(uri), <<"/">>)])
    ELSE [err |-> FALSE,
          uri |-> TrimSuffix(URLString(convertToAbsolute(uri, baseUrl)), <<"/">>)]

\* Lines 266-278: the checks on the href before it is classified.
hrefChecked(val, uri, baseUrl) ==
    IF HasPrefix(val, <<"#">>) \/ uri.Err \/ baseUrl.Err THEN LinkErr
    ELSE linkOf(uri, baseUrl)

\* The body of processLinkToken's loop for an "href" attribute.
processHref(val, base) == hrefChecked(val, ParseURL(val), ParseURL(base))

\* The first "href" attribute decides; 0 when the token has none.
firstHref(attrs) ==
    IF \E i \in 1..Len(attrs) : attrs[i].Key = "href"
    THEN CHOOSE i \in 1..Len(attrs) :
            attrs[i].Key = "href" /\ \A j \in 1..(i - 1) : attrs[j].Key # "href"
    ELSE 0

processLinkToken(token, base) ==
    IF firstHref(token.Attr) = 0 THEN LinkErr
    ELSE processHref(token.Attr[firstHref(token.Attr)].Val, base)

\* Parse's maps: the urls collected so far.
NoUrls == [resourceUrls |-> {}, linkUrls |-> {}]

addResources(r, acc) ==
    IF r.err THEN acc ELSE [acc EXCEPT !.resourceUrls = @ \cup r.uris]

addLink(l, acc) ==
    IF l.err THEN acc ELSE [acc EXCEPT !.linkUrls = @ \cup {l.uri}]

\* The switch of Parse, lines 144-161, on one token.
scanToken(baseUrl, token, acc) ==
    IF isResourceToken(token) THEN addResources(processResourceToken(token), acc)
    ELSE IF isLinkToken(token) THEN addLink(processLinkToken(token, baseUrl), acc)
    ELSE acc

\* Parse(baseUrl, httpBody): the page is the sequence of tokens the tokenizer
\* yields before its ErrorToken (end of stream or a parse error).
RECURSIVE ParseFrom(_, _, _, _)
ParseFrom(baseUrl, page, i, acc) ==
    IF i > Len(page) THEN acc
    ELSE ParseFrom(baseUrl, page, i + 1, scanToken(baseUrl, page[i], acc))

Parse(baseUrl, page) == ParseFrom(baseUrl, page, 1, NoUrls)

\* ------------------------------------------------------------------------
\* the sites crawled: a start url and the token stream of every page that
\* can be fetched; a url with no page is a fetch error
\* ------------------------------------------------------------------------

Origin == <<"https", ":", "/", "/", "example", ".", "com">>

Url(path) == Origin \o path

InsecureImg == <<"http", ":", "/", "/", "insecure", ".", "example", ".", "com", "/", "a", ".", "png">>

InsecureJpg == <<"http", ":", "/", "/", "cdn", ".", "example", ".", "com", "/", "x", ".", "jpg">>

A(href) == Tok(StartTagToken, "a", <<At("href", href)>>)

Img(type, src) == Tok(type, "img", <<At("src", src)>>)

\* seed -> {/b, /c}, /b -> {/c, /}, /c carries an insecure image.
DiamondSite ==
    [start |-> Origin,
     pages |-> (Origin :> <<A(<<"/", "b">>), A(<<"/", "c">>)>>)
            @@ (Url(<<"/", "b">>) :> <<A(<<"/", "c">>), A(<<"/">>)>>)
            @@ (Url(<<"/", "c">>) :> <<Img(SelfClosingTagToken, InsecureJpg)>>)]

\* The seed page holds one image with an insecure src and one anchor with a
\* relative href; the image is written <img src=...> or <img src=... />.
ScenarioSite(imgType) ==
    [start |-> Origin,
     pages |-> (Origin :> <<Img(imgType, InsecureImg), A(<<"/", "next">>)>>)
            @@ (Url(<<"/", "next">>) :> <<>>)]

\* A link to a page that does not exist and a link to another host.
BrokenSite ==
    [start |-> Origin,
     pages |-> (Origin :> <<A(<<"/", "missing">>),
                            A(<<"https", ":", "/", "/", "other", ".", "com", "/", "page">>),
                            Img(SelfClosingTagToken, InsecureJpg)>>)]

\* The start url is given with a trailing "/"; the page links back to itself.
SlashSeedSite ==
    [start |-> Url(<<"/">>),
     pages |-> (Url(<<"/">>) :> <<A(<<"/">>)>>)
            @@ (Origin :> <<A(<<"/">>)>>)]

WwwPage == <<"https", ":", "/", "/", "www", ".", "example", ".", "com", "/", "page">>

\* Links to the www. form of the host, to another host (absolute and
\* scheme-relative) and a scheme-relative link to the host itself.
WwwSite ==
    [start |-> Origin,
     pages |-> (Origin :> <<A(WwwPage),
                            A(<<"http", ":", "/", "/", "other", ".", "com", "/", "page">>),
                            A(<<"/", "/", "example", ".", "com", "/", "page", "/">>)>>)
            @@ (WwwPage :> <<A(<<"/", "/", "other", ".", "com", "/", "page">>),
                             A(Url(<<"/">>))>>)]

Sites == <<DiamondSite, ScenarioSite(StartTagToken), ScenarioSite(SelfClosingTagToken),
           BrokenSite, SlashSeedSite, WwwSite>>

\* ------------------------------------------------------------------------
\* crawl and fetchUrl
\* ------------------------------------------------------------------------

\* The most fetchUrl goroutines one crawl starts.
MaxTasks == 6

VARIABLES
    site,       \* index in Sites of the site behind the start url
    processed,  \* registry.processed: the keys of the map
    tasks,      \* the fetchUrl goroutines started, in order of their go statement
    flag,       \* crawl's flag: a tick passed with nothing received since
    crawlPc,    \* "Running" inside crawl's loop, "Terminated" once it returned
    silent,     \* history: ticks since the last receive (or the start), at most 2
    base,       \* scanner run: Parse's baseUrl
    scanPc,     \* scanner run: "next" before page.Next(), "token" with a token in hand, "returned"
    token,      \* scanner run: page.Token()
    outcome,    \* scanner run: what the last token was taken for and what it gave
    resourceMap,\* scanner run: Parse's resourceMap (its keys)
    linkMap,    \* scanner run: Parse's linkMap (its keys)
    nTokens     \* scanner run: tokens read so far

crawlVars == <<site, processed, tasks, flag, crawlPc, silent>>

scanVars == <<base, scanPc, token, outcome, resourceMap, linkMap, nTokens>>

vars == <<site, processed, tasks, flag, crawlPc, silent,
          base, scanPc, token, outcome, resourceMap, linkMap, nTokens>>

Started == DOMAIN tasks

\* go fetchUrl(url, queue, registry): a goroutine about to run line 15.
\* found: the insecure resource urls it printed; links: pageUrls; pending: the
\* part of pageUrls not yet sent; err: Fetch returned an error.
NewTask(url) ==
    [url |-> url, pc |-> "mark", err |-> FALSE, found |-> {}, links |-> {}, pending |-> {}]

\* Registry.IsNew and Registry.MarkAsProcessed
IsNew(url) == url \notin processed

MarkAsProcessed(url) == processed \cup {url}

NoToken == Tok("None", "", <<>>)

NoOutcome == [kind |-> "none", err |-> FALSE, uris |-> {}]

ScanIdle ==
    /\ base = <<>>
    /\ scanPc = "idle"
    /\ token = NoToken
    /\ outcome = NoOutcome
    /\ resourceMap = {}
    /\ linkMap = {}
    /\ nTokens = 0

\* crawl, lines 38-46: the registry is empty, the seed's goroutine is started
\* without consulting the registry, flag is false.
Init ==
    /\ site \in DOMAIN Sites
    /\ processed = {}
    /\ tasks = <<NewTask(Sites[site].start)>>
    /\ flag = FALSE
    /\ crawlPc = "Running"
    /\ silent = 0
    /\ ScanIdle

\* fetchUrl line 15
Mark(t) ==
    /\ crawlPc = "Running"
    /\ t \in Started
    /\ tasks[t].pc = "mark"
    /\ processed' = MarkAsProcessed(tasks[t].url)
    /\ tasks' = [tasks EXCEPT ![t].pc = "fetch"]
    /\ UNCHANGED <<site, flag, crawlPc, silent>>
    /\ UNCHANGED scanVars

\* InsecureResourceFetcher.Fetch(url): fetch the body, then Parse(url, body).
FetcherFetch(url, ok) ==
    IF ok /\ url \in DOMAIN Sites[site].pages
    THEN [err |-> FALSE] @@ Parse(url, Sites[site].pages[url])
    ELSE [err |-> TRUE, resourceUrls |-> {}, linkUrls |-> {}]

\* A fetchUrl that queues its own url again when the fetch fails.
AfterFetch_RequeueOnError(task, r) ==
    IF r.err
    THEN [task EXCEPT !.err = TRUE, !.links = {task.url}, !.pending = {task.url},
                      !.pc = "send"]
    ELSE [task EXCEPT !.found = r.resourceUrls,
                      !.links = r.linkUrls,
                      !.pending = r.linkUrls,
                      !.pc = IF r.linkUrls = {} THEN "done" ELSE "send"]

\* What fetchUrl does with Fetch's result, lines 19-29: on an error return;
\* otherwise print every insecure resource url and go on to the send loop.
AfterFetch(task, r) ==
    IF r.err
    THEN [task EXCEPT !.err = TRUE, !.pc = "failed"]
    ELSE [task EXCEPT !.found = r.resourceUrls,
                      !.links = r.linkUrls,
                      !.pending = r.linkUrls,
                      !.pc = IF r.linkUrls = {} THEN "done" ELSE "send"]

\* fetchUrl lines 17-27; the transport may fail for any url.
Fetch(t) ==
    /\ crawlPc = "Running"
    /\ t \in Started
    /\ tasks[t].pc = "fetch"
    /\ \E ok \in BOOLEAN :
          tasks' = [tasks EXCEPT ![t] = AfterFetch(@, FetcherFetch(tasks[t].url, ok))]
    /\ UNCHANGED <<site, processed, flag, crawlPc, silent>>
    /\ UNCHANGED scanVars

\* The task's side of queue <- url (line 30): url leaves the slice.
Sent(task, url) ==
    [task EXCEPT !.pending = @ \ {url},
                 !.pc = IF task.pending = {url} THEN "done" ELSE "send"]

\* A crawl that clears flag only after the registry check, for new urls.
Receive_ResetOnlyWhenNew(t, url) ==
    /\ crawlPc = "Running"
    /\ t \in Started
    /\ tasks[t].pc = "send"
    /\ url \in tasks[t].pending
    /\ flag' = IF IsNew(url) THEN FALSE ELSE flag
    /\ silent' = 0
    /\ IF IsNew(url)
       THEN /\ Len(tasks) < MaxTasks
            /\ tasks' = Append([tasks EXCEPT ![t] = Sent(@, url)], NewTask(url))
       ELSE tasks' = [tasks EXCEPT ![t] = Sent(@, url)]
    /\ UNCHANGED <<site, processed, crawlPc>>
    /\ UNCHANGED scanVars

\* A crawl that starts a goroutine for every url it receives.
Receive_NoRegistryCheck(t, url) ==
    /\ crawlPc = "Running"
    /\ t \in Started
    /\ tasks[t].pc = "send"
    /\ url \in tasks[t].pending
    /\ flag' = FALSE
    /\ silent' = 0
    /\ Len(tasks) < MaxTasks
    /\ tasks' = Append([tasks EXCEPT ![t] = Sent(@, url)], NewTask(url))
    /\ UNCHANGED <<site, processed, crawlPc>>
    /\ UNCHANGED scanVars

\* crawl lines 49-56 meeting fetchUrl line 30 on the unbuffered channel:
\* flag is cleared, and a goroutine is started when the registry says new.
Receive(t, url) ==
    /\ crawlPc = "Running"
    /\ t \in Started
    /\ tasks[t].pc = "send"
    /\ url \in tasks[t].pending
    /\ flag' = FALSE
    /\ silent' = 0
    /\ IF IsNew(url)
       THEN /\ Len(tasks) < MaxTasks
            /\ tasks' = Append([tasks EXCEPT ![t] = Sent(@, url)], NewTask(url))
       ELSE tasks' = [tasks EXCEPT ![t] = Sent(@, url)]
    /\ UNCHANGED <<site, processed, crawlPc>>
    /\ UNCHANGED scanVars

\* A crawl whose tick never records the silence.
Tick_NeverArms ==
    /\ crawlPc = "Running"
    /\ IF flag
       THEN crawlPc' = "Terminated" /\ flag' = flag
       ELSE crawlPc' = crawlPc /\ flag' = flag
    /\ silent' = IF silent < 2 THEN silent + 1 ELSE silent
    /\ UNCHANGED <<site, processed, tasks>>
    /\ UNCHANGED scanVars

\* crawl lines 57-65
Tick ==
    /\ crawlPc = "Running"
    /\ IF flag
       THEN crawlPc' = "Terminated" /\ flag' = flag
       ELSE crawlPc' = crawlPc /\ flag' = TRUE
    /\ silent' = silent + 1
    /\ UNCHANGED <<site, processed, tasks>>
    /\ UNCHANGED scanVars

Next ==
    \/ \E t \in Started : Mark(t)
    \/ \E t \in Started : Fetch(t)
    \/ \E t \in Started : \E url \in tasks[t].pending : Receive(t, url)
    \/ Tick

Spec == Init /\ [][Next]_vars

\* ------------------------------------------------------------------------
\* one run of Parse, token by token
\* ------------------------------------------------------------------------

\* The most tokens the tokenizer yields before its ErrorToken.
MaxTokens == 2

Bases == {Origin,
          <<"https", ":", "/", "/", "www", ".", "example", ".", "com", "/", "page">>,
          Origin \o <<"/", "a", "/">>}

Cdn == <<"/", "/", "cdn", ".", "example", ".", "com", "/", "x", ".", "jpg">>

\* Values of src, poster and data: http, https, scheme-relative, relative,
\* unparseable, other schemes, upper-case schemes, empty.
ResourceVals ==
    {InsecureJpg,
     <<"https", ":">> \o Cdn,
     Cdn,
     <<"/", "img", ".", "png">>,
     <<":", "x">>,
     <<"ftp", ":">> \o Cdn,
     <<"data", ":", "x">>,
     <<"HTTP", ":">> \o Cdn,
     <<"HTTPS", ":">> \o Cdn,
     <<>>}

\* Values of href: in-page anchor, relative, absolute on the host with and
\* without www., on another host, scheme-relative, unparseable, opaque, empty.
HrefVals ==
    {<<"#", "section">>,
     <<"/", "next">>,
     <<"/", "page", "/">>,
     <<"next">>,
     <<".", ".", "/", "img", ".", "png">>,
     <<"page", "#", "section">>,
     Origin \o <<"/", "page", "/">>,
     <<"https", ":", "/", "/", "www", ".", "example", ".", "com", "/", "page">>,
     <<"http", ":", "/", "/", "other", ".", "com", "/", "page">>,
     <<"/", "/", "example", ".", "com", "/", "page", "/">>,
     <<"/", "/", "other", ".", "com", "/", "page">>,
     <<":", "x">>,
     <<"mailto", ":", "a">>,
     <<>>}

Tags == {"img", "iframe", "object", "video", "audio", "source", "track", "a",
         "script", "div"}

\* Every tag as a start tag and as a self-closing tag, with a src and with an
\* href; end tags and text carry no attribute.
TagTokens ==
    {Tok(type, tag, <<At(key, InsecureJpg)>>) :
        type \in {StartTagToken, SelfClosingTagToken}, tag \in Tags, key \in {"src", "href"}}
    \cup {Tok(EndTagToken, tag, <<>>) : tag \in Tags}
    \cup {Tok(TextToken, "img", <<>>)}

ResourceTokens ==
    {Tok(StartTagToken, "object", <<At(key, val)>>) :
        key \in {"src", "poster", "data", "alt"}, val \in ResourceVals}
    \cup {Tok(SelfClosingTagToken, "img", <<At(key, val)>>) :
        key \in {"src", "poster", "data", "alt"}, val \in ResourceVals}

LinkTokens == {Tok(StartTagToken, "a", <<At("href", val)>>) : val \in HrefVals}

\* Tokens with several attributes, with a repeated attribute, with none.
MixedTokens ==
    {Tok(StartTagToken, "object", <<At("data", InsecureJpg), At("poster", InsecureImg)>>),
     Tok(StartTagToken, "video", <<At("src", <<"https", ":">> \o Cdn), At("poster", InsecureImg)>>),
     Tok(StartTagToken, "video", <<At("src", InsecureJpg), At("src", InsecureImg)>>),
     Tok(SelfClosingTagToken, "img", <<At("alt", InsecureImg), At("src", InsecureJpg)>>),
     Tok(SelfClosingTagToken, "img", <<At("href", <<"/", "next">>), At("src", InsecureJpg)>>),
     Tok(StartTagToken, "a", <<At("class", <<"x">>), At("href", <<"/", "next">>)>>),
     Tok(StartTagToken, "a", <<At("href", <<"#", "section">>), At("href", <<"/", "next">>)>>),
     Tok(StartTagToken, "a", <<At("src", InsecureJpg)>>),
     Tok(StartTagToken, "a", <<>>),
     Tok(SelfClosingTagToken, "img", <<>>)}

Tokens == TagTokens \cup ResourceTokens \cup LinkTokens \cup MixedTokens

CrawlIdle ==
    /\ site = 1
    /\ processed = {}
    /\ tasks = <<>>
    /\ flag = FALSE
    /\ crawlPc = "Idle"
    /\ silent = 0

\* Parse lines 133-136: both maps empty, the tokenizer at the start of the body.
ScanInit ==
    /\ CrawlIdle
    /\ base \in Bases
    /\ scanPc = "next"
    /\ token = NoToken
    /\ outcome = NoOutcome
    /\ resourceMap = {}
    /\ linkMap = {}
    /\ nTokens = 0

Collected == [resourceUrls |-> resourceMap, linkUrls |-> linkMap]

\* Lines 138-142: page.Next() yields a token.
PageNext ==
    /\ scanPc = "next"
    /\ nTokens < MaxTokens
    /\ \E tk \in Tokens : token' = tk
    /\ scanPc' = "token"
    /\ nTokens' = nTokens + 1
    /\ UNCHANGED <<base, outcome, resourceMap, linkMap>>
    /\ UNCHANGED crawlVars

\* Lines 139-140 and 164-176: page.Next() yields the ErrorToken, Parse returns
\* what the maps hold.
PageEnd ==
    /\ scanPc = "next"
    /\ scanPc' = "returned"
    /\ UNCHANGED <<base, token, outcome, resourceMap, linkMap, nTokens>>
    /\ UNCHANGED crawlVars

\* Lines 145-153
ScanResource ==
    /\ scanPc = "token"
    /\ isResourceToken(token)
    /\ outcome' = [kind |-> "resource"] @@ processResourceToken(token)
    /\ resourceMap' = scanToken(base, token, Collected).resourceUrls
    /\ linkMap' = scanToken(base, token, Collected).linkUrls
    /\ scanPc' = "next"
    /\ UNCHANGED <<base, token, nTokens>>
    /\ UNCHANGED crawlVars

\* The one url of a link outcome, as a set.
linkResult(l) == [err |-> l.err, uris |-> IF l.err THEN {} ELSE {l.uri}]

\* A Parse that returns the error of processLinkToken instead of skipping
\* the token.
ScanLink_StopOnError ==
    /\ scanPc = "token"
    /\ ~isResourceToken(token)
    /\ isLinkToken(token)
    /\ outcome' = [kind |-> "link"] @@ linkResult(processLinkToken(token, base))
    /\ IF processLinkToken(token, base).err
       THEN resourceMap' = {} /\ linkMap' = {} /\ scanPc' = "failed"
       ELSE /\ resourceMap' = scanToken(base, token, Collected).resourceUrls
            /\ linkMap' = scanToken(base, token, Collected).linkUrls
            /\ scanPc' = "next"
    /\ UNCHANGED <<base, token, nTokens>>
    /\ UNCHANGED crawlVars

\* Lines 154-160
ScanLink ==
    /\ scanPc = "token"
    /\ ~isResourceToken(token)
    /\ isLinkToken(token)
    /\ outcome' = [kind |-> "link"] @@ linkResult(processLinkToken(token, base))
    /\ resourceMap' = scanToken(base, token, Collected).resourceUrls
    /\ linkMap' = scanToken(base, token, Collected).linkUrls
    /\ scanPc' = "next"
    /\ UNCHANGED <<base, token, nTokens>>
    /\ UNCHANGED crawlVars

\* No case of the switch applies.
ScanOther ==
    /\ scanPc = "token"
    /\ ~isResourceToken(token)
    /\ ~isLinkToken(token)
    /\ outcome' = NoOutcome
    /\ resourceMap' = scanToken(base, token, Collected).resourceUrls
    /\ linkMap' = scanToken(base, token, Collected).linkUrls
    /\ scanPc' = "next"
    /\ UNCHANGED <<base, token, nTokens>>
    /\ UNCHANGED crawlVars

ScanNext == PageNext \/ PageEnd \/ ScanResource \/ ScanLink \/ ScanOther

SpecScan == ScanInit /\ [][ScanNext]_vars

\* The token in hand has been through the switch.
Scanned == scanPc = "next" /\ nTokens > 0

\* The timer keeps ticking, every goroutine that can run does run, and a
\* goroutine waiting at queue <- url is received from while crawl's loop runs.
FairSpec ==
    /\ Spec
    /\ WF_vars(Tick)
    /\ WF_vars(\E t \in Started : Mark(t) \/ Fetch(t))
    /\ WF_vars(\E t \in Started : \E url \in tasks[t].pending : Receive(t, url))

Returned(t) == tasks[t].pc \in {"done", "failed"}

\* ------------------------------------------------------------------------
\* claims
\* ------------------------------------------------------------------------

\* C1: at most one fetchUrl goroutine is ever started for any url, however
\* close together two arrivals of the url on the queue are.
AtMostOneTaskPerUrl ==
    \A i, j \in Started : tasks[i].url = tasks[j].url => i = j

\* C2: when crawl has returned, no started goroutine is still marking,
\* fetching or waiting to send a link.
TerminatedOnlyWhenNoTaskInFlight ==
    crawlPc = "Terminated" => \A t \in Started : Returned(t)

\* C3: crawl returns exactly at the second of two ticks with no receive in
\* between; after one such tick it is still running with the silence recorded
\* in flag, and every receive, of a new or of a processed url, clears the record.
TerminatesAtSecondSilentTick ==
    /\ crawlPc = "Terminated" <=> silent = 2
    /\ crawlPc = "Running" => (flag <=> silent = 1)

\* C3 witness: crawl returned after it had received at least one url.
TerminatedAfterArrival ==
    /\ crawlPc = "Terminated"
    /\ \E t \in Started : tasks[t].links # tasks[t].pending

\* C4: with the timer ticking and the goroutines scheduled fairly, crawl
\* returns, whichever fetches fail.
EventuallyTerminated == <>(crawlPc = "Terminated")

\* C4 witness: crawl returned and some fetch had failed.
TerminatedWithFailedFetch ==
    crawlPc = "Terminated" /\ \E t \in Started : tasks[t].err

\* C5: a goroutine whose Fetch returned an error returns at once, having
\* printed no finding and queued no url, and the step in which its fetch fails
\* changes nothing crawl's loop reads: flag, the registry and the set of
\* goroutines stay as they are and the loop keeps running.
FailedTaskContributesNothing ==
    [][\A t \in DOMAIN tasks' :
          tasks'[t].err =>
             /\ tasks'[t].pc = "failed"
             /\ tasks'[t].found = {} /\ tasks'[t].links = {} /\ tasks'[t].pending = {}
             /\ (t \in Started /\ ~tasks[t].err) =>
                   /\ crawlPc' = "Running"
                   /\ UNCHANGED <<flag, processed, silent>>
                   /\ DOMAIN tasks' = DOMAIN tasks]_vars

\* C5 witness: a fetch has failed and crawl's loop has since received a url
\* from another goroutine.
FailedTaskWhileRunning ==
    /\ crawlPc = "Running"
    /\ \E t, u \in Started : tasks[t].err /\ u > t /\ tasks[u].pc = "fetch"

\* C6: every started goroutine eventually returns.
EveryTaskReturns ==
    \A t \in 1..MaxTasks : [](t \in Started => <>(t \in Started /\ Returned(t)))

\* The reports printed for a page: one per goroutine and resource url.
Reports(page) ==
    {<<t, r>> \in Started \X UNION {tasks[t].found : t \in Started} :
        tasks[t].url = page /\ r \in tasks[t].found}

\* C7: when the seed page holds one image with an insecure src and one anchor
\* with a relative href, and every goroutine has returned without a fetch
\* error, one finding was printed for the seed page and one url was admitted
\* besides the seed, the href made absolute.
ScenarioOneFindingOneAdmission ==
    (/\ \E type \in {StartTagToken, SelfClosingTagToken} : Sites[site] = ScenarioSite(type)
     /\ crawlPc = "Terminated"
     /\ \A t \in Started : tasks[t].pc = "done")
    => /\ Cardinality(Reports(Origin)) = 1
       /\ Len(tasks) = 2
       /\ tasks[2].url = Url(<<"/", "next">>)

\* C8: a token is taken for a resource exactly when it is an image tag, start
\* or self-closing, or a start tag of the media family; it is taken for a
\* link exactly when it is an anchor start tag; any other token is skipped.
ResourceBearingIffImageOrMediaStart ==
    Scanned =>
       /\ outcome.kind = "resource" <=>
             \/ token.Data = "img" /\ token.Type \in {StartTagToken, SelfClosingTagToken}
             \/ token.Type = StartTagToken /\ token.Data \in ResourceTags
       /\ outcome.kind = "link" <=> (token.Type = StartTagToken /\ token.Data = "a")

\* The targeted attribute values of a token whose url has the scheme http.
HttpValues(tk) ==
    {URLString(ParseURL(tk.Attr[i].Val)) : i \in
        {j \in 1..Len(tk.Attr) :
            /\ isTargetedResourceTokenAttribute(tk, tk.Attr[j])
            /\ ~ParseURL(tk.Attr[j].Val).Err
            /\ ParseURL(tk.Attr[j].Val).Scheme = <<"http">>}}

\* C9: the urls a resource token yields are exactly its targeted attribute
\* values that are absolute urls with the scheme http; https, scheme-relative,
\* relative and unparseable values and values of any other scheme yield nothing.
InsecureIffHttpScheme ==
    (Scanned /\ outcome.kind = "resource") => outcome.uris = HttpValues(token)

\* The href resolved against the base page.
Resolved(val, b) == ResolveReference(ParseURL(b), ParseURL(val))

SameHost(val, b) ==
    TrimPrefix(Resolved(val, b).Host, <<"www", ".">>) = TrimPrefix(ParseURL(b).Host, <<"www", ".">>)

InScope(val, b) == ~HasPrefix(val, <<"#">>) /\ ~ParseURL(val).Err /\ SameHost(val, b)

\* C10: an href is accepted exactly when it does not start with "#", parses,
\* and resolves to the base page's host up to a leading "www."; the url
\* returned is the resolved url less one trailing "/".
InScopeLinkIffSameHost ==
    (Scanned /\ outcome.kind = "link" /\ firstHref(token.Attr) # 0) =>
       /\ outcome.err <=> ~InScope(token.Attr[firstHref(token.Attr)].Val, base)
       /\ ~outcome.err =>
             outcome.uris = {TrimSuffix(URLString(Resolved(token.Attr[firstHref(token.Attr)].Val, base)),
                                        <<"/">>)}

\* C11: every link url the scanner returns is an absolute url, with a scheme:
\* a relative href is resolved against the base page and a scheme-relative
\* href on the base's host is returned in absolute form too.
EveryLinkReturnedIsAbsolute ==
    (Scanned /\ outcome.kind = "link") =>
       \A u \in outcome.uris : ~ParseURL(u).Err /\ IsAbs(ParseURL(u))

\* C12: every url in the registry is normalized: it is absolute and does not
\* end in "/", so the start url and a link back to it are one registry entry.
RegistryNormalized ==
    \A u \in processed :
       /\ ~ParseURL(u).Err
       /\ IsAbs(ParseURL(u))
       /\ ~HasSuffix(u, <<"/">>)

\* The host of a url without a leading "www.".
HostOf(u) == TrimPrefix(ParseURL(u).Host, <<"www", ".">>)

\* C13: every url a goroutine was started for is on the start url's host, up
\* to a leading "www.": no chain of links takes the crawl to another host.
EveryTaskOnSeedHost ==
    \A t \in Started : HostOf(tasks[t].url) = HostOf(Sites[site].start)

\* C13 witness: the page on the www. form of the host, reached by a link from
\* a page that also links to another host, was fetched and scanned, and all
\* its links, one of them to another host, were dealt with.
WwwPageCrawled ==
    \E t \in Started :
       /\ tasks[t].url = WwwPage
       /\ tasks[t].pc = "done"
       /\ tasks[t].links # {}

\* The urls goroutine t hands over in this step: what leaves its slice.
Handed(t) == tasks[t].pending \ tasks'[t].pending

\* C14: when crawl receives a url that is already in the registry it starts
\* no goroutine and leaves the registry as it is; it clears flag, keeps
\* running, and no goroutine but the sender changes.
VisitedArrivalOnlyResetsSilence ==
    [][\A t \in Started :
          (Handed(t) # {} /\ Handed(t) \subseteq processed) =>
             /\ DOMAIN tasks' = DOMAIN tasks
             /\ processed' = processed
             /\ flag' = FALSE /\ silent' = 0
             /\ crawlPc' = "Running"
             /\ \A u \in Started \ {t} : tasks'[u] = tasks[u]]_vars

\* The urls handed to crawl so far, per sender.
Arrivals == {<<t, u>> \in Started \X UNION {tasks[t].links : t \in Started} :
                u \in tasks[t].links \ tasks[t].pending}

\* C14 witness: crawl has received more urls than it has started goroutines
\* for (each goroutine but the first answers one arrival), so an arrival was
\* discarded; crawl's loop is still running, with flag clear.
VisitedArrivalDiscarded ==
    /\ Cardinality(Arrivals) > Len(tasks) - 1
    /\ crawlPc = "Running"
    /\ ~flag

\* C15: once the fetch of a url has failed, no goroutine fetches that url
\* again, and the registry only grows.
FailedUrlNeverFetchedAgain ==
    [][/\ processed \subseteq processed'
       /\ \A t \in Started :
             (tasks[t].pc = "fetch" /\ tasks'[t].pc # "fetch") =>
                ~\E f \in Started : tasks[f].err /\ tasks[f].url = tasks[t].url]_vars

\* The attributes C16 names: src and poster on any resource tag, data on object.
Targeted(tk, key) == key \in {"src", "poster"} \/ (key = "data" /\ tk.Data = "object")

\* What one attribute value yields when evaluated on its own.
ValueAccepted(val) == ~ParseURL(val).Err /\ ~isIgnoredResourceUri(ParseURL(val))

\* The urls of the targeted attributes of a token, each evaluated on its own.
TargetedUrls(tk) ==
    {URLString(ParseURL(tk.Attr[i].Val)) : i \in
        {j \in 1..Len(tk.Attr) :
            Targeted(tk, tk.Attr[j].Key) /\ ValueAccepted(tk.Attr[j].Val)}}

\* C16: a resource token yields exactly the urls of its targeted attributes,
\* each evaluated independently of the others; its other attributes yield
\* neither a resource nor a link, and with no accepted targeted attribute the
\* token is an error to Parse and adds nothing.
OnlyTargetedAttributesEachOnItsOwn ==
    (Scanned /\ outcome.kind = "resource") =>
       /\ outcome.uris = TargetedUrls(token)
       /\ outcome.err <=> TargetedUrls(token) = {}
       /\ nTokens = 1 => (resourceMap = TargetedUrls(token) /\ linkMap = {})

\* The goroutines that printed the finding (page, resource).
Printed(page, resource) ==
    {t \in Started : tasks[t].url = page /\ resource \in tasks[t].found}

\* C17: over a crawl every pair (page, insecure resource url) is printed at
\* most once, and a resource found on two pages is printed once for each.
EachFindingPrintedOnce ==
    \A t \in Started : \A r \in tasks[t].found :
       Cardinality(Printed(tasks[t].url, r)) = 1

\* C18: Parse never fails: a token goes through the switch and scanning goes
\* on with the next token, keeping what was collected and adding nothing when
\* the token's classification failed; when the tokenizer yields its
\* ErrorToken, Parse returns what the two maps hold.
ScannerSkipsAndReturnsCollected ==
    [][/\ scanPc = "token" =>
             /\ scanPc' = "next"
             /\ resourceMap \subseteq resourceMap' /\ linkMap \subseteq linkMap'
             /\ outcome'.err => (resourceMap' = resourceMap /\ linkMap' = linkMap)
       /\ scanPc = "next" =>
             \/ scanPc' = "token"
             \/ scanPc' = "returned" /\ resourceMap' = resourceMap /\ linkMap' = linkMap]_vars

\* C18 witness: Parse has returned a non-empty collection although the last
\* token it read failed classification.
ReturnedAfterSkippedToken ==
    /\ scanPc = "returned"
    /\ nTokens > 1
    /\ outcome.err
    /\ (resourceMap # {} \/ linkMap # {})

====
